---- MODULE Spec2Model ----
(***************************************************************************)
(* ZeroconfService (src/src/main.py): a manager that keeps one service     *)
(* descriptor registered with a Zeroconf engine from a background thread,  *)
(* refreshing it every update interval, and withdraws it on stop().        *)
(*                                                                         *)
(* The model has two threads of control: the caller of the public methods  *)
(* (start, stop, close, update_info) and the thread running _service_loop. *)
(* Every statement of the loop that reads shared state or calls the engine *)
(* is one step, so the caller's methods interleave with the loop exactly   *)
(* where the interpreter can switch threads.  The engine (the zeroconf     *)
(* package) is the environment: it keeps the set of registered             *)
(* descriptors, and any register/unregister call may raise.                *)
(*                                                                         *)
(* Spec and FairSpec have the public methods called one at a time by any   *)
(* caller; SpecMain is main() after its handlers are installed, with       *)
(* SIGINT/SIGTERM running close() on the main thread; SpecAll is both;     *)
(* SpecConfig is the configuration part of main(): load_config on a file   *)
(* in any of its states, then the name fallback.                           *)
(***************************************************************************)
EXTENDS Naturals, FiniteSets, Sequences

\* Number of distinct ServiceInfo values the caller can pass.
NumDescriptors == 2

\* Length of the update interval, in clock ticks.
Interval == 2

Descriptors == 1..NumDescriptors

\* "No descriptor" in the bookkeeping variables: a value outside Descriptors.
NoDescriptor == NumDescriptors + 1

VARIABLES
    info,          \* self._info
    stopEvent,     \* self._stop_event flag
    started,       \* self._thread has been started (Thread._started)
    running,       \* number of executions of _service_loop in progress
    loopPc,        \* position of the loop thread in _service_loop
    timer,         \* ticks elapsed in the current self._stop_event.wait
    registered,    \* descriptors registered with the engine
    closed,        \* self._zeroconf.close() has been called
    lastCall,      \* the last engine call the loop made
    prevCall,      \* the engine call the loop made before lastCall
    callerPc,      \* position of the caller: idle, or blocked in a method
    lastOp,        \* the public method the caller invoked last
    ret,           \* how that method ended: "ok", "RuntimeError", "pending"
    startCount,    \* start() calls so far, saturating at 2
    stopCount,     \* stop()/close() calls begun so far, saturating at 2
    stopReturned,  \* some stop() (alone or inside close()) has returned
    engineFailed,  \* some engine call of the loop has raised
    lastUpdate,    \* argument of the latest update_info, or NoDescriptor
    mainPc,        \* position of main(), or "api" when the caller is not main
    frames,        \* signal handlers running on the main thread, innermost last
    signals,       \* SIGINT/SIGTERM deliveries so far
    nested,        \* a signal arrived while a handler waited for a live loop
    cfgPc,         \* position in the configuration part of main()
    source,        \* the configuration file
    config,        \* the ServiceConfig load_config returned
    cfgError       \* the exception that left load_config, or "none"

vars == <<info, stopEvent, started, running, loopPc, timer, registered, closed,
          lastCall, prevCall, callerPc, lastOp, ret, startCount, stopCount,
          stopReturned, engineFailed, lastUpdate, mainPc, frames, signals,
          nested, cfgPc, source, config, cfgError>>

engineVars == <<registered, lastCall, prevCall, engineFailed>>
callerVars == <<callerPc, lastOp, ret, startCount, stopCount, stopReturned,
                lastUpdate>>

mainVars == <<mainPc, frames, signals, nested>>
configVars == <<cfgPc, source, config, cfgError>>

NoCall == [op |-> "none", d |-> NoDescriptor, ok |-> TRUE]

Call(op, d, ok) == [op |-> op, d |-> d, ok |-> ok]

\* Thread.is_alive() of self._thread.
is_alive == running > 0

TypeOK ==
    /\ info \in Descriptors
    /\ stopEvent \in BOOLEAN
    /\ started \in BOOLEAN
    /\ running \in 0..2
    /\ loopPc \in {"new", "test", "unregister", "register", "wait", "final",
                   "done", "dead"}
    /\ timer \in 0..Interval
    /\ registered \subseteq Descriptors
    /\ closed \in BOOLEAN
    /\ lastCall \in [op : {"none", "unregister", "register"},
                     d : Descriptors \cup {NoDescriptor}, ok : BOOLEAN]
    /\ prevCall \in [op : {"none", "unregister", "register"},
                     d : Descriptors \cup {NoDescriptor}, ok : BOOLEAN]
    /\ callerPc \in {"idle", "stop_join", "close_join", "close_zeroconf",
                    "main"}
    /\ lastOp \in {"none", "update_info", "start", "stop", "close"}
    /\ ret \in {"ok", "RuntimeError", "pending"}
    /\ startCount \in 0..2
    /\ stopCount \in 0..2
    /\ stopReturned \in BOOLEAN
    /\ engineFailed \in BOOLEAN
    /\ lastUpdate \in Descriptors \cup {NoDescriptor}
    /\ mainPc \in {"api", "config", "start", "poll", "sleep", "returned",
                  "raised"}
    /\ frames \in Seq({"close_join", "close_zeroconf"})
    /\ signals \in Nat
    /\ nested \in BOOLEAN
    /\ cfgPc \in {"idle", "load", "loaded", "built", "raised"}
    /\ cfgError \in {"none", "PermissionError", "UnicodeDecodeError"}

(***************************************************************************)
(* Configuration values.  A value carries its JSON/Python type t and its   *)
(* text s as a sequence of parts, so that an f-string is a concatenation.  *)
(***************************************************************************)

\* socket.gethostname()
Hostname == "H"

Str(parts) == [t |-> "str", s |-> parts]
Int(digits) == [t |-> "int", s |-> <<digits>>]
EmptyDict == [t |-> "dict", s |-> <<>>]
EmptyList == [t |-> "list", s |-> <<>>]
Null == [t |-> "null", s |-> <<>>]

\* A key that the JSON object does not have.
Absent == [t |-> "absent", s |-> <<>>]

\* The field defaults of the ServiceConfig dataclass.
DefaultType == Str(<<"_http._tcp.local.">>)
DefaultName == Str(<<Hostname, ".", "_http._tcp.local.">>)
DefaultPort == Int("8080")
DefaultInterval == Int("60")

\* ServiceConfig()
Defaults ==
    [type |-> DefaultType, name |-> DefaultName, port |-> DefaultPort,
     properties |-> EmptyDict, interval |-> DefaultInterval]

\* The values a configuration file may give each key: absent, well shaped,
\* or of another JSON type.
TypeValues == {Absent, DefaultType, Str(<<"_foo._tcp.local.">>), Int("42")}
NameValues == {Absent, Str(<<>>), Str(<<"printer">>), Null}
PortValues == {Absent, Int("9090"), Str(<<"abc">>)}
PropertiesValues == {Absent, EmptyDict, EmptyList}
IntervalValues == {Absent, Int("30"), Str(<<"fast">>)}

\* A JSON object: the value of each ServiceConfig key, and whether it has a
\* key that is no ServiceConfig field.
JsonObjects ==
    [type : TypeValues, name : NameValues, port : PortValues,
     properties : PropertiesValues, interval : IntervalValues,
     extra : BOOLEAN]

EmptyObject ==
    [type |-> Absent, name |-> Absent, port |-> Absent,
     properties |-> Absent, interval |-> Absent, extra |-> FALSE]

\* What the file's text is to json.loads: malformed, a JSON value that is
\* not an object, or an object.
JsonTexts ==
    {[shape |-> "malformed", obj |-> EmptyObject],
     [shape |-> "scalar", obj |-> EmptyObject]}
    \cup {[shape |-> "object", obj |-> o] : o \in JsonObjects}

NoJson == [shape |-> "none", obj |-> EmptyObject]

\* The states of the configuration file: absent (in a directory that can or
\* cannot be written), present but unreadable, present but not UTF-8, or
\* present with some text.
Sources ==
    {[kind |-> "absent", writable |-> w, json |-> NoJson] : w \in BOOLEAN}
    \cup {[kind |-> k, writable |-> TRUE, json |-> NoJson] :
            k \in {"unreadable", "undecodable"}}
    \cup {[kind |-> "text", writable |-> TRUE, json |-> j] : j \in JsonTexts}

\* No configuration is being loaded.
NoSource == [kind |-> "none", writable |-> TRUE, json |-> NoJson]
NoConfig ==
    [type |-> Absent, name |-> Absent, port |-> Absent,
     properties |-> Absent, interval |-> Absent]

ConfigIdle ==
    /\ cfgPc = "idle"
    /\ source = NoSource
    /\ config = NoConfig
    /\ cfgError = "none"

\* ZeroconfService.__init__: the thread object exists but is not started.
Init ==
    /\ info \in Descriptors
    /\ stopEvent = FALSE
    /\ started = FALSE
    /\ running = 0
    /\ loopPc = "new"
    /\ timer = 0
    /\ registered = {}
    /\ closed = FALSE
    /\ lastCall = NoCall
    /\ prevCall = NoCall
    /\ callerPc = "idle"
    /\ lastOp = "none"
    /\ ret = "ok"
    /\ startCount = 0
    /\ stopCount = 0
    /\ stopReturned = FALSE
    /\ engineFailed = FALSE
    /\ lastUpdate = NoDescriptor
    /\ mainPc = "api"
    /\ frames = <<>>
    /\ signals = 0
    /\ nested = FALSE
    /\ ConfigIdle

(***************************************************************************)
(* The engine, as the loop sees it.  A call either returns (ok) or raises. *)
(* unregister_service of a descriptor that is not registered is a no-op;   *)
(* a call that raises leaves the registry as it was.                       *)
(***************************************************************************)
RegistryAfter(op, d, ok) ==
    IF ~ok THEN registered
    ELSE IF op = "register" THEN registered \cup {d}
    ELSE registered \ {d}

EngineCall(op, d, ok) ==
    /\ registered' = RegistryAfter(op, d, ok)
    /\ prevCall' = lastCall
    /\ lastCall' = Call(op, d, ok)
    /\ engineFailed' = (engineFailed \/ ~ok)

\* A loop that tolerates a raising engine call and carries on.
AfterCall_tolerant(ok, next) ==
    /\ loopPc' = next
    /\ running' = IF next = "done" THEN running - 1 ELSE running

\* Where the loop goes after an engine call: on to `next`, or, the call
\* having raised, out of _service_loop with the exception (the thread ends).
AfterCall(ok, next) ==
    IF ok
    THEN /\ loopPc' = next
         /\ running' = IF next = "done" THEN running - 1 ELSE running
    ELSE /\ loopPc' = "dead"
         /\ running' = running - 1

(***************************************************************************)
(* _service_loop, one action per statement.                                *)
(***************************************************************************)

\* while not self._stop_event.is_set():
LoopTest ==
    /\ loopPc = "test"
    /\ loopPc' = IF stopEvent THEN "final" ELSE "unregister"
    /\ UNCHANGED <<info, stopEvent, started, running, timer, closed>>
    /\ UNCHANGED engineVars
    /\ UNCHANGED callerVars
    /\ UNCHANGED <<mainVars, configVars>>

\* self._zeroconf.unregister_service(self._info)
LoopUnregister ==
    /\ loopPc = "unregister"
    /\ \E ok \in BOOLEAN :
          /\ EngineCall("unregister", info, ok)
          /\ AfterCall(ok, "register")
    /\ UNCHANGED <<info, stopEvent, started, timer, closed>>
    /\ UNCHANGED callerVars
    /\ UNCHANGED <<mainVars, configVars>>

\* The descriptor a cycle's unregister was called with, kept for its register.
LoopRegister_cached ==
    /\ loopPc = "register"
    /\ \E ok \in BOOLEAN :
          /\ EngineCall("register", lastCall.d, ok)
          /\ AfterCall(ok, "wait")
    /\ timer' = 0
    /\ UNCHANGED <<info, stopEvent, started, closed>>
    /\ UNCHANGED callerVars
    /\ UNCHANGED <<mainVars, configVars>>

\* self._zeroconf.register_service(self._info)
LoopRegister ==
    /\ loopPc = "register"
    /\ \E ok \in BOOLEAN :
          /\ EngineCall("register", info, ok)
          /\ AfterCall(ok, "wait")
    /\ timer' = 0
    /\ UNCHANGED <<info, stopEvent, started, closed>>
    /\ UNCHANGED callerVars
    /\ UNCHANGED <<mainVars, configVars>>

\* self._stop_event.wait(...) returning because the event is set.
WaitWake ==
    /\ loopPc = "wait"
    /\ stopEvent
    /\ loopPc' = "test"
    /\ timer' = 0
    /\ UNCHANGED <<info, stopEvent, started, running, closed>>
    /\ UNCHANGED engineVars
    /\ UNCHANGED callerVars
    /\ UNCHANGED <<mainVars, configVars>>

\* self._stop_event.wait(...) returning because the interval has elapsed.
WaitTimeout ==
    /\ loopPc = "wait"
    /\ timer = Interval
    /\ loopPc' = "test"
    /\ timer' = 0
    /\ UNCHANGED <<info, stopEvent, started, running, closed>>
    /\ UNCHANGED engineVars
    /\ UNCHANGED callerVars
    /\ UNCHANGED <<mainVars, configVars>>

\* A wait that only the elapsed interval ends (time.sleep in place of
\* Event.wait).
LoopWait_sleep == WaitTimeout

\* self._stop_event.wait(self._update_interval)
LoopWait == WaitWake \/ WaitTimeout

\* Time passing while the loop is in its wait.
Tick ==
    /\ loopPc = "wait"
    /\ timer < Interval
    /\ timer' = timer + 1
    /\ UNCHANGED <<info, stopEvent, started, running, loopPc, closed>>
    /\ UNCHANGED engineVars
    /\ UNCHANGED callerVars
    /\ UNCHANGED <<mainVars, configVars>>

\* A loop that returns as soon as it sees the stop event.
LoopFinalUnregister_skipped ==
    /\ loopPc = "final"
    /\ loopPc' = "done"
    /\ running' = running - 1
    /\ UNCHANGED <<info, stopEvent, started, timer, closed>>
    /\ UNCHANGED engineVars
    /\ UNCHANGED callerVars
    /\ UNCHANGED <<mainVars, configVars>>

\* self._zeroconf.unregister_service(self._info) after the while loop, then
\* the thread ends.
LoopFinalUnregister ==
    /\ loopPc = "final"
    /\ \E ok \in BOOLEAN :
          /\ EngineCall("unregister", info, ok)
          /\ AfterCall(ok, "done")
    /\ UNCHANGED <<info, stopEvent, started, timer, closed>>
    /\ UNCHANGED callerVars
    /\ UNCHANGED <<mainVars, configVars>>

Loop ==
    \/ LoopTest
    \/ LoopUnregister
    \/ LoopRegister
    \/ LoopWait
    \/ LoopFinalUnregister

(***************************************************************************)
(* The public methods, called one at a time by the caller.                 *)
(***************************************************************************)

\* update_info: self._info = info
update_info(d) ==
    /\ callerPc = "idle"
    /\ info' = d
    /\ lastOp' = "update_info"
    /\ ret' = "ok"
    /\ lastUpdate' = d
    /\ UNCHANGED <<stopEvent, started, running, loopPc, timer, closed>>
    /\ UNCHANGED <<callerPc, startCount, stopCount, stopReturned>>
    /\ UNCHANGED engineVars
    /\ UNCHANGED <<mainVars, configVars>>

\* self._thread.start(): a Thread object starts once; a second start raises
\* RuntimeError.  It returns with the new thread running.
Thread_start ==
    IF started
    THEN /\ ret' = "RuntimeError"
         /\ UNCHANGED <<started, running, loopPc>>
    ELSE /\ ret' = "ok"
         /\ started' = TRUE
         /\ running' = running + 1
         /\ loopPc' = "test"

\* A start() that runs _service_loop on a fresh thread at every call.
start_unguarded ==
    /\ callerPc = "idle"
    /\ running < 2
    /\ lastOp' = "start"
    /\ startCount' = IF startCount < 2 THEN startCount + 1 ELSE startCount
    /\ ret' = "ok"
    /\ started' = TRUE
    /\ running' = running + 1
    /\ loopPc' = "test"
    /\ UNCHANGED <<info, stopEvent, timer, closed>>
    /\ UNCHANGED <<callerPc, stopCount, stopReturned, lastUpdate>>
    /\ UNCHANGED engineVars
    /\ UNCHANGED <<mainVars, configVars>>

\* start
start ==
    /\ callerPc = "idle"
    /\ lastOp' = "start"
    /\ startCount' = IF startCount < 2 THEN startCount + 1 ELSE startCount
    /\ IF is_alive
       THEN /\ ret' = "ok"
            /\ UNCHANGED <<started, running, loopPc>>
       ELSE Thread_start
    /\ UNCHANGED <<info, stopEvent, timer, closed>>
    /\ UNCHANGED <<callerPc, stopCount, stopReturned, lastUpdate>>
    /\ UNCHANGED engineVars
    /\ UNCHANGED <<mainVars, configVars>>

\* self._stop_event.set(), then the entry of self._thread.join(): joining a
\* thread that was never started raises RuntimeError; otherwise the caller
\* blocks at `blocked`.
SetAndJoin(blocked) ==
    /\ stopEvent' = TRUE
    /\ stopCount' = IF stopCount < 2 THEN stopCount + 1 ELSE stopCount
    /\ IF started
       THEN /\ ret' = "pending"
            /\ callerPc' = blocked
       ELSE /\ ret' = "RuntimeError"
            /\ callerPc' = "idle"

\* A join that returns without waiting for the thread.
Thread_join_returns_nowait == TRUE

\* self._thread.join() returns once the thread has ended.
Thread_join_returns == ~is_alive

\* stop, up to the point where it blocks in join (or raises).
stop ==
    /\ callerPc = "idle"
    /\ lastOp' = "stop"
    /\ SetAndJoin("stop_join")
    /\ UNCHANGED <<info, started, running, loopPc, timer, closed>>
    /\ UNCHANGED <<startCount, stopReturned, lastUpdate>>
    /\ UNCHANGED engineVars
    /\ UNCHANGED <<mainVars, configVars>>

\* stop returning from join.
StopJoinReturn ==
    /\ callerPc = "stop_join"
    /\ Thread_join_returns
    /\ callerPc' = "idle"
    /\ ret' = "ok"
    /\ stopReturned' = TRUE
    /\ UNCHANGED <<info, stopEvent, started, running, loopPc, timer, closed>>
    /\ UNCHANGED <<lastOp, startCount, stopCount, lastUpdate>>
    /\ UNCHANGED engineVars
    /\ UNCHANGED <<mainVars, configVars>>

\* close, up to the point where its stop() blocks in join (or raises, and
\* the exception leaves close before self._zeroconf.close()).
close ==
    /\ callerPc = "idle"
    /\ lastOp' = "close"
    /\ SetAndJoin("close_join")
    /\ UNCHANGED <<info, started, running, loopPc, timer, closed>>
    /\ UNCHANGED <<startCount, stopReturned, lastUpdate>>
    /\ UNCHANGED engineVars
    /\ UNCHANGED <<mainVars, configVars>>

\* The stop() inside close returning from join.
CloseJoinReturn ==
    /\ callerPc = "close_join"
    /\ Thread_join_returns
    /\ callerPc' = "close_zeroconf"
    /\ stopReturned' = TRUE
    /\ UNCHANGED <<info, stopEvent, started, running, loopPc, timer, closed>>
    /\ UNCHANGED <<lastOp, ret, startCount, stopCount, lastUpdate>>
    /\ UNCHANGED engineVars
    /\ UNCHANGED <<mainVars, configVars>>

\* self._zeroconf.close(), and close returns.
ZeroconfClose ==
    /\ callerPc = "close_zeroconf"
    /\ closed' = TRUE
    /\ callerPc' = "idle"
    /\ ret' = "ok"
    /\ UNCHANGED <<info, stopEvent, started, running, loopPc, timer>>
    /\ UNCHANGED <<lastOp, startCount, stopCount, stopReturned, lastUpdate>>
    /\ UNCHANGED engineVars
    /\ UNCHANGED <<mainVars, configVars>>

Caller ==
    \/ \E d \in Descriptors : update_info(d)
    \/ start
    \/ stop
    \/ StopJoinReturn
    \/ close
    \/ CloseJoinReturn
    \/ ZeroconfClose

Next == Loop \/ Tick \/ Caller

Spec == Init /\ [][Next]_vars

\* The scheduler runs a thread that can run: the loop takes its next step,
\* and a join whose thread has ended returns.  Nothing makes time pass.
FairSpec ==
    /\ Spec
    /\ WF_vars(Loop)
    /\ WF_vars(StopJoinReturn)
    /\ WF_vars(CloseJoinReturn)
    /\ WF_vars(ZeroconfClose)

(***************************************************************************)
(* main(): the manager is constructed, close() is installed as the handler *)
(* of SIGINT and SIGTERM, the service is started and the main thread polls *)
(* is_alive().  A handler runs on the main thread, on top of whatever the  *)
(* main thread was doing, which resumes when the handler returns; an       *)
(* exception leaving a handler propagates into the interrupted code and    *)
(* out of main().  The loop thread is a daemon: it stops with the process. *)
(***************************************************************************)

\* Number of signals delivered to the process in one run.
MaxSignals == 2

\* main() has neither returned nor been left by an exception.
ProcessAlive == mainPc \notin {"returned", "raised"}

\* The state of main() once both handlers are installed, before
\* zeroconf_service.start().
InitMain ==
    /\ info \in Descriptors
    /\ stopEvent = FALSE
    /\ started = FALSE
    /\ running = 0
    /\ loopPc = "new"
    /\ timer = 0
    /\ registered = {}
    /\ closed = FALSE
    /\ lastCall = NoCall
    /\ prevCall = NoCall
    /\ callerPc = "main"
    /\ lastOp = "none"
    /\ ret = "ok"
    /\ startCount = 0
    /\ stopCount = 0
    /\ stopReturned = FALSE
    /\ engineFailed = FALSE
    /\ lastUpdate = NoDescriptor
    /\ mainPc = "start"
    /\ frames = <<>>
    /\ signals = 0
    /\ nested = FALSE
    /\ ConfigIdle

\* zeroconf_service.start()
MainStart ==
    /\ mainPc = "start"
    /\ frames = <<>>
    /\ lastOp' = "start"
    /\ startCount' = IF startCount < 2 THEN startCount + 1 ELSE startCount
    /\ IF is_alive
       THEN /\ ret' = "ok"
            /\ UNCHANGED <<started, running, loopPc>>
       ELSE Thread_start
    /\ mainPc' = IF ret' = "ok" THEN "poll" ELSE "raised"
    /\ UNCHANGED <<info, stopEvent, timer, closed>>
    /\ UNCHANGED <<callerPc, stopCount, stopReturned, lastUpdate>>
    /\ UNCHANGED <<frames, signals, nested>>
    /\ UNCHANGED engineVars
    /\ UNCHANGED configVars

\* SIGINT or SIGTERM is delivered: the handler calls close(), which calls
\* stop(): the stop event is set and the handler blocks in join, or join
\* raises RuntimeError (thread never started) and the exception leaves the
\* handler and main().
Signal ==
    /\ mainPc \in {"start", "poll", "sleep"}
    /\ signals < MaxSignals
    /\ signals' = signals + 1
    /\ nested' = (nested \/ (frames # <<>> /\ is_alive))
    /\ lastOp' = "close"
    /\ stopCount' = IF stopCount < 2 THEN stopCount + 1 ELSE stopCount
    /\ stopEvent' = TRUE
    /\ IF started
       THEN /\ frames' = Append(frames, "close_join")
            /\ ret' = "pending"
            /\ mainPc' = mainPc
       ELSE /\ frames' = <<>>
            /\ ret' = "RuntimeError"
            /\ mainPc' = "raised"
    /\ UNCHANGED <<info, started, running, loopPc, timer, closed>>
    /\ UNCHANGED <<callerPc, startCount, stopReturned, lastUpdate>>
    /\ UNCHANGED engineVars
    /\ UNCHANGED configVars

\* The innermost handler's stop() returns from join.
HandlerJoinReturn ==
    /\ frames # <<>>
    /\ frames[Len(frames)] = "close_join"
    /\ Thread_join_returns
    /\ frames' = [frames EXCEPT ![Len(frames)] = "close_zeroconf"]
    /\ stopReturned' = TRUE
    /\ UNCHANGED <<info, stopEvent, started, running, loopPc, timer, closed>>
    /\ UNCHANGED <<callerPc, lastOp, ret, startCount, stopCount, lastUpdate>>
    /\ UNCHANGED <<mainPc, signals, nested>>
    /\ UNCHANGED engineVars
    /\ UNCHANGED configVars

\* The innermost handler calls self._zeroconf.close() and returns; what it
\* interrupted resumes.
HandlerZeroconfClose ==
    /\ frames # <<>>
    /\ frames[Len(frames)] = "close_zeroconf"
    /\ closed' = TRUE
    /\ frames' = SubSeq(frames, 1, Len(frames) - 1)
    /\ ret' = "ok"
    /\ UNCHANGED <<info, stopEvent, started, running, loopPc, timer>>
    /\ UNCHANGED <<callerPc, lastOp, startCount, stopCount, stopReturned,
                   lastUpdate>>
    /\ UNCHANGED <<mainPc, signals, nested>>
    /\ UNCHANGED engineVars
    /\ UNCHANGED configVars

\* while zeroconf_service.is_alive():
MainPoll ==
    /\ mainPc = "poll"
    /\ frames = <<>>
    /\ mainPc' = IF is_alive THEN "sleep" ELSE "returned"
    /\ UNCHANGED <<info, stopEvent, started, running, loopPc, timer, closed>>
    /\ UNCHANGED <<frames, signals, nested>>
    /\ UNCHANGED engineVars
    /\ UNCHANGED callerVars
    /\ UNCHANGED configVars

\* sleep(1)
MainSleep ==
    /\ mainPc = "sleep"
    /\ frames = <<>>
    /\ mainPc' = "poll"
    /\ UNCHANGED <<info, stopEvent, started, running, loopPc, timer, closed>>
    /\ UNCHANGED <<frames, signals, nested>>
    /\ UNCHANGED engineVars
    /\ UNCHANGED callerVars
    /\ UNCHANGED configVars

\* The loop thread and the clock run while the process does.
LoopInProcess == ProcessAlive /\ Loop

TickInProcess == ProcessAlive /\ Tick

NextMain ==
    \/ LoopInProcess
    \/ TickInProcess
    \/ MainStart
    \/ Signal
    \/ HandlerJoinReturn
    \/ HandlerZeroconfClose
    \/ MainPoll
    \/ MainSleep

\* The program as main() runs it.
SpecMain == InitMain /\ [][NextMain]_vars

\* The manager under either kind of caller: the public methods called one
\* at a time, or main() with its signal handlers.
SpecAll == (Init \/ InitMain) /\ [][NextMain \/ Caller]_vars

(***************************************************************************)
(* The configuration part of main(): load_config, then the name fallback.  *)
(***************************************************************************)

\* ServiceConfig(**obj) for a JSON object whose keys are all fields: a key
\* that is given sets its field to the value as it is (a dataclass checks no
\* types), a key that is absent leaves the field's default.
ServiceConfig(obj) ==
    [type |-> IF obj.type = Absent THEN DefaultType ELSE obj.type,
     name |-> IF obj.name = Absent THEN DefaultName ELSE obj.name,
     port |-> IF obj.port = Absent THEN DefaultPort ELSE obj.port,
     properties |->
        IF obj.properties = Absent THEN EmptyDict ELSE obj.properties,
     interval |->
        IF obj.interval = Absent THEN DefaultInterval ELSE obj.interval]

\* json.dumps(asdict(config), indent=4), as a later json.loads reads it.
Dumps(cfg) ==
    [shape |-> "object",
     obj |-> [type |-> cfg.type, name |-> cfg.name, port |-> cfg.port,
              properties |-> cfg.properties, interval |-> cfg.interval,
              extra |-> FALSE]]

Returned(cfg, src) ==
    [pc |-> "loaded", config |-> cfg, source |-> src, error |-> "none"]

Raised(exc, src) ==
    [pc |-> "raised", config |-> NoConfig, source |-> src, error |-> exc]

\* load_config(config_path) on a file in state src: how it ends, what it
\* returns and the file it leaves.
\*  - read_text raises FileNotFoundError: the defaults, written to the path;
\*    a write_text that raises leaves load_config from inside the handler.
\*  - read_text raises another OSError or UnicodeDecodeError: not caught.
\*  - json.loads raises JSONDecodeError, or ServiceConfig(**x) raises
\*    TypeError (x is no mapping, or has a key that is no field): defaults.
LoadConfig(src) ==
    IF src.kind = "absent"
    THEN IF src.writable
         THEN Returned(Defaults, [kind |-> "text", writable |-> TRUE,
                                  json |-> Dumps(Defaults)])
         ELSE Raised("PermissionError", src)
    ELSE IF src.kind = "unreadable" THEN Raised("PermissionError", src)
    ELSE IF src.kind = "undecodable" THEN Raised("UnicodeDecodeError", src)
    ELSE IF src.json.shape = "object" /\ ~src.json.obj.extra
         THEN Returned(ServiceConfig(src.json.obj), src)
         ELSE Returned(Defaults, src)

\* config = load_config(Path(__file__).parent/"config.json")
load_config ==
    /\ cfgPc = "load"
    /\ cfgPc' = LoadConfig(source).pc
    /\ config' = LoadConfig(source).config
    /\ source' = LoadConfig(source).source
    /\ cfgError' = LoadConfig(source).error
    /\ UNCHANGED <<info, stopEvent, started, running, loopPc, timer, closed>>
    /\ UNCHANGED engineVars
    /\ UNCHANGED callerVars
    /\ UNCHANGED mainVars

\* bool(v) of a configuration value.
Truthy(v) ==
    IF v.t = "null" THEN FALSE
    ELSE IF v.t = "int" THEN v.s # <<"0">>
    ELSE v.s # <<>>

\* f"{hostname}.{config.type}"
HostnameDotType(cfg) == Str(<<Hostname, ".">> \o cfg.type.s)

\* config.name = config.name if config.name else f"{hostname}.{config.type}"
NameFallback ==
    /\ cfgPc = "loaded"
    /\ cfgPc' = "built"
    /\ config' = [config EXCEPT
                    !.name = IF Truthy(config.name) THEN config.name
                             ELSE HostnameDotType(config)]
    /\ UNCHANGED <<source, cfgError>>
    /\ UNCHANGED <<info, stopEvent, started, running, loopPc, timer, closed>>
    /\ UNCHANGED engineVars
    /\ UNCHANGED callerVars
    /\ UNCHANGED mainVars

\* main() about to load its configuration, the file in any of its states.
InitConfig ==
    /\ info \in Descriptors
    /\ stopEvent = FALSE
    /\ started = FALSE
    /\ running = 0
    /\ loopPc = "new"
    /\ timer = 0
    /\ registered = {}
    /\ closed = FALSE
    /\ lastCall = NoCall
    /\ prevCall = NoCall
    /\ callerPc = "main"
    /\ lastOp = "none"
    /\ ret = "ok"
    /\ startCount = 0
    /\ stopCount = 0
    /\ stopReturned = FALSE
    /\ engineFailed = FALSE
    /\ lastUpdate = NoDescriptor
    /\ mainPc = "config"
    /\ frames = <<>>
    /\ signals = 0
    /\ nested = FALSE
    /\ cfgPc = "load"
    /\ source \in Sources
    /\ config = NoConfig
    /\ cfgError = "none"

NextConfig == load_config \/ NameFallback

SpecConfig == InitConfig /\ [][NextConfig]_vars

(***************************************************************************)
(* Properties.                                                             *)
(***************************************************************************)

\* The loop has ended: it returned from _service_loop or left it with an
\* exception.
LoopExited == started /\ ~is_alive

\* C1: every register call of the loop is immediately preceded by an
\* unregister call for the same descriptor (one refresh cycle is an
\* unregister followed by a register of the same descriptor), whatever
\* update_info calls interleave.
C1_CycleSameDescriptor ==
    lastCall.op = "register" =>
        /\ prevCall.op = "unregister"
        /\ prevCall.d = lastCall.d

C3_WithdrawnAfterStop ==
    (stopReturned /\ ~engineFailed) => registered = {}

C5_StartNeverRaises ==
    (lastOp = "start" /\ stopReturned /\ ~engineFailed) => ret = "ok"

\* C6: a stop() or close() that is not the first one ends without an error
\* and leaves the manager stopped.
C6_RepeatedStopIsNoOp ==
    (lastOp \in {"stop", "close"} /\ stopCount = 2 /\ callerPc = "idle") =>
        /\ ret = "ok"
        /\ ~is_alive

\* C7: every close() that has ended has released the engine handle.
C7_CloseReleasesHandle ==
    (lastOp = "close" /\ callerPc = "idle") => closed

\* C8: in every state in which a stop() has returned, the thread is not
\* alive and the loop is at no statement that could make an engine call.
C8_StopReturnsAfterLoopExit ==
    stopReturned =>
        /\ ~is_alive
        /\ loopPc \in {"done", "dead"}

\* C8 witness: stop() has returned on a manager whose loop had registered
\* the descriptor and then made its final unregister.
C8_Witness ==
    /\ stopReturned
    /\ lastOp = "stop"
    /\ callerPc = "idle"
    /\ prevCall.op = "register"
    /\ lastCall.op = "unregister"

\* C9: a stop() blocked in join eventually returns, with no assumption that
\* time passes (FairSpec makes no Tick happen): the stop event ends the
\* loop's wait, and the loop exits after its final unregister.
C9_StopReturns ==
    (callerPc = "stop_join") ~> (callerPc = "idle" /\ stopReturned)

\* C9 witness: stop() is blocked in join while the loop is in its wait with
\* the interval not yet elapsed.
C9_Witness ==
    /\ callerPc = "stop_join"
    /\ loopPc = "wait"
    /\ timer < Interval
    /\ stopEvent

\* C10: once update_info(d) has been called, the next register call of the
\* loop is made with d.
C10_RegisterUsesUpdate ==
    [][(loopPc = "register" /\ loopPc' # "register"
            /\ lastUpdate # NoDescriptor) =>
        (lastCall'.op = "register" /\ lastCall'.d = lastUpdate)]_vars

\* C10 witness: a register call used the updated descriptor although the
\* unregister before it in the same cycle was made with the previous one.
C10_Witness ==
    /\ lastCall.op = "register"
    /\ lastCall.ok
    /\ lastCall.d = lastUpdate
    /\ prevCall.op = "unregister"
    /\ prevCall.d # lastCall.d

\* C13: once an engine call of the loop has raised, the loop has terminated
\* at that call: the failed call is the last engine call it made (no retry,
\* no further call) and the thread is not alive, in every later state.
C13_FailureEndsLoop ==
    engineFailed =>
        /\ loopPc = "dead"
        /\ ~is_alive
        /\ ~lastCall.ok

\* C13 witness: a register call raised in the middle of a refresh cycle,
\* with no stop requested, and the thread is no longer alive.
C13_Witness ==
    /\ engineFailed
    /\ ~stopEvent
    /\ lastCall.op = "register"
    /\ ~lastCall.ok
    /\ ~is_alive

\* C18: at every moment at most one descriptor is registered with the
\* engine.
C18_AtMostOneRegistered ==
    Cardinality(registered) <= 1

\* C19: the loop never issues a register call for a descriptor that is
\* registered with the engine at the time of the call.
C19_NoDuplicateRegister ==
    [][(loopPc = "register" /\ loopPc' # "register") =>
        lastCall'.d \notin registered]_vars

\* C11: whenever a signal has been delivered and its handler is no longer
\* running, close() has run to completion: the loop is stopped, the engine
\* handle is released, and no exception has left main().
C11_SignalClosesGracefully ==
    (signals > 0 /\ frames = <<>>) =>
        /\ closed
        /\ ~is_alive
        /\ mainPc # "raised"

\* C12: whenever main() has returned normally, close() has been invoked and
\* the engine handle is released.
C12_ClosedAtNormalExit ==
    mainPc = "returned" => closed

\* C20: once the engine handle has been released, the loop has exited and
\* is at no statement that could make an engine call: close() releases the
\* handle only after the loop has ended.
C20_NoCallAfterRelease ==
    closed =>
        /\ ~is_alive
        /\ loopPc \in {"done", "dead"}

\* C20 witness: a second signal was delivered while the first handler's
\* close() was blocked in join on a live loop; the second handler has
\* released the handle after the loop made its final unregister, and the
\* first is still in its join.
C20_Witness ==
    /\ closed
    /\ nested
    /\ frames = <<"close_join">>
    /\ loopPc = "done"
    /\ prevCall.op = "register"
    /\ lastCall.op = "unregister"

\* The shape the specification gives each configuration field.
WellShaped(cfg) ==
    /\ cfg.type.t = "str"
    /\ cfg.name.t = "str"
    /\ cfg.port.t = "int"
    /\ cfg.properties.t = "dict"
    /\ cfg.interval.t = "int"

\* The file's text fails to parse: it is malformed, or it is no object with
\* only known keys, or a key's value has the wrong shape.
FailsToParse(json) ==
    \/ json.shape # "object"
    \/ json.obj.extra
    \/ ~WellShaped(ServiceConfig(json.obj))

\* C14: load_config on a path where no file exists returns the default
\* settings and leaves at the path a file holding exactly those defaults.
C14_AbsentWritesDefaults ==
    [][(cfgPc = "load" /\ source.kind = "absent") =>
        /\ cfgPc' = "loaded"
        /\ config' = Defaults
        /\ source'.kind = "text"
        /\ source'.json = Dumps(Defaults)]_vars

\* C15: load_config on an existing file whose text fails to parse
\* (malformed JSON, or an object with a field of the wrong shape) returns
\* the default settings and leaves the file as it was.
C15_UnparsableGivesDefaults ==
    [][(cfgPc = "load" /\ source.kind = "text"
            /\ FailsToParse(source.json)) =>
        /\ cfgPc' = "loaded"
        /\ config' = Defaults
        /\ source' = source]_vars

\* C16: load_config never ends with an exception, whatever the state of the
\* configuration file.
C16_LoadNeverRaises ==
    cfgPc # "raised" /\ cfgError = "none"

\* C17: for a loaded configuration whose name key is absent or empty (and
\* whose type is a string), the name built at startup is
\* <hostname>.<type> for the type of that configuration.
C17_NameFallback ==
    (/\ cfgPc = "built"
     /\ source.json.shape = "object"
     /\ ~source.json.obj.extra
     /\ source.json.obj.name \in {Absent, Str(<<>>)}
     /\ config.type.t = "str")
        => config.name = HostnameDotType(config)

====
